---------------------------- MODULE Spec2Model ----------------------------
(***************************************************************************)
(* qunit-sinon-assertions: the value formatter (utils: pluralize, typeOf,  *)
(* replacer, format, formatItems), the SinonAssertions class (pushResult   *)
(* and the named checks) and the QUnit.assert.spy factory with validateSpy.*)
(*                                                                         *)
(* A text is a sequence of atoms.  An atom is a run of ordinary characters *)
(* or one of the five characters the formatter treats specially: the       *)
(* double quote, the single quote, the backslash, the newline and the      *)
(* backtick.  Concatenation of texts is \o.                                *)
(***************************************************************************)
EXTENDS Integers, Sequences, FiniteSets, TLC

VARIABLES
    calls,      \* the spy's recorded calls, oldest first (owned by sinon)
    inst,       \* the SinonAssertions instance of the current expression
    sink,       \* what testContext.pushResult has recorded, in order
    log,        \* history: one entry per check call, in call order
    fret,       \* history: what the last assert.spy(x) call did
    input,      \* the argument of a utility call under test
    output      \* what that utility call returned

vars == <<calls, inst, sink, log, fret, input, output>>

-----------------------------------------------------------------------------
(* Bounds of the model.                                                    *)

MaxCalls == 2
MaxChecks == 2

-----------------------------------------------------------------------------
(* Atoms and texts.                                                        *)

DQ == "\""
SQ == "'"
BS == "\\"
NL == "\n"
BT == "BACKTICK"

T(s) == <<s>>

RECURSIVE Join(_, _)
\* Array.prototype.join on an array of texts
Join(texts, sep) ==
    IF Len(texts) = 0 THEN <<>>
    ELSE IF Len(texts) = 1 THEN texts[1]
    ELSE texts[1] \o sep \o Join(Tail(texts), sep)

Includes(text, atom) == \E i \in 1..Len(text) : text[i] = atom

-----------------------------------------------------------------------------
(* JavaScript values.  A value is named by an identifier; the operators    *)
(* below give the structure the formatter looks at.                        *)

Values ==
    { "undefined", "null", "true", "n1", "n2", "n3",
      "sA", "sOk", "sQuote", "sSlash", "sUndef",
      "arrEmpty", "arr12", "arrNest", "arrHole",
      "objId", "fn", "matcher", "symbol", "error",
      "cyclic", "arrCyclic", "nullProto" }

\* typeOf(value): Object.prototype.toString tag, lower-cased
typeOf(v) ==
    CASE v = "undefined" -> "undefined"
      [] v = "null" -> "null"
      [] v = "true" -> "boolean"
      [] v \in {"n1", "n2", "n3"} -> "number"
      [] v \in {"sA", "sOk", "sQuote", "sSlash", "sUndef"} -> "string"
      [] v \in {"arrEmpty", "arr12", "arrNest", "arrHole", "arrCyclic"} -> "array"
      [] v \in {"objId", "matcher", "cyclic", "nullProto"} -> "object"
      [] v = "fn" -> "function"
      [] v = "symbol" -> "symbol"
      [] v = "error" -> "error"

\* the characters of a string value
StrOf(v) ==
    CASE v = "sA" -> <<"a">>
      [] v = "sOk" -> <<"ok">>
      [] v = "sQuote" -> <<"say ", DQ, "hi", DQ>>
      [] v = "sSlash" -> <<"a", BS, DQ, "b">>
      [] v = "sUndef" -> <<"<undefined>">>

NumOf(v) == CASE v = "n1" -> 1 [] v = "n2" -> 2 [] v = "n3" -> 3

\* the elements of an array value; arrCyclic is a = [1]; a.push(a)
Elems(v) ==
    CASE v = "arrEmpty" -> <<>>
      [] v = "arr12" -> <<"n1", "n2">>
      [] v = "arrNest" -> <<"sA", "arr12">>
      [] v = "arrHole" -> <<"undefined", "null">>
      [] v = "arrCyclic" -> <<"n1", "arrCyclic">>

\* the enumerable own properties of an object value, as <<key, value>>;
\* cyclic is o = {}; o.self = o, nullProto is Object.create(null)
Props(v) ==
    CASE v = "objId" -> << <<"id", "n1">> >>
      [] v = "matcher" -> << <<"message", "sA">> >>
      [] v = "cyclic" -> << <<"self", "cyclic">> >>
      [] v = "nullProto" -> <<>>

\* The text of a coercion that throws a TypeError: the atom poisons every
\* text it is concatenated into, and the statement that builds such a text
\* raises instead of completing.
TypeError == "#TypeError#"
Throws(text) == Includes(text, TypeError)

RECURSIVE String(_, _), JoinElements(_, _)
\* String(value) / the coercion a template literal applies.  seen is the
\* set of arrays being joined: Array.prototype.join renders an array it is
\* already joining as the empty text.
String(v, seen) ==
    CASE typeOf(v) = "undefined" -> T("undefined")
      [] typeOf(v) = "null" -> T("null")
      [] typeOf(v) = "boolean" -> T("true")
      [] typeOf(v) = "number" -> T(ToString(NumOf(v)))
      [] typeOf(v) = "string" -> StrOf(v)
      [] typeOf(v) = "function" -> T("function fn() {}")
      [] typeOf(v) = "symbol" -> T(TypeError)
      [] typeOf(v) = "error" -> T("Error: boom")
      [] typeOf(v) = "object" ->
            IF v = "nullProto" THEN T(TypeError)
            ELSE IF v = "matcher" THEN T("match(a)")
            ELSE T("[object Object]")
      [] typeOf(v) = "array" ->
            IF v \in seen THEN <<>> ELSE JoinElements(Elems(v), seen \cup {v})

\* Array.prototype.join(','): undefined and null elements render empty
JoinElements(items, seen) ==
    IF Len(items) = 0 THEN <<>>
    ELSE (IF Head(items) \in {"undefined", "null"} THEN <<>>
          ELSE String(Head(items), seen))
         \o (IF Len(items) > 1 THEN T(",") \o JoinElements(Tail(items), seen)
             ELSE <<>>)

-----------------------------------------------------------------------------
(* utils: pluralize, replacer, format, formatItems.                        *)

\* pluralize(word, count): count === 1 ? word : `${word}s`
pluralize(word, count) == IF count = 1 THEN T(word) ELSE T(word) \o T("s")

jsonTypes == {"string", "number", "boolean", "null", "array", "object"}

\* What replacer(_, value) returns: a fresh string (isText) or the value
\* itself.  When String(value) throws inside it, the string is the poisoned
\* text, and so is every text built from it.
Replaced(t) == [isText |-> TRUE, text |-> t, value |-> "undefined"]
Kept(v) == [isText |-> FALSE, text |-> <<>>, value |-> v]

replacer(value) ==
    IF value = "undefined" THEN Replaced(T("<undefined>"))
    ELSE IF typeOf(value) = "object" /\ String(value, {}) # T("[object Object]")
    THEN Replaced(String(value, {}))
    ELSE IF typeOf(value) = "function" THEN Replaced(String(value, {}))
    ELSE IF typeOf(value) \notin jsonTypes
    THEN Replaced(T(IF typeOf(value) = "symbol" THEN "[object Symbol]"
                    ELSE "[object Error]"))
    ELSE Kept(value)

RECURSIVE Escape(_)
\* the escapes JSON's QuoteJSONString applies to the special atoms
Escape(text) ==
    IF Len(text) = 0 THEN <<>>
    ELSE (CASE Head(text) = DQ -> <<BS, DQ>>
            [] Head(text) = BS -> <<BS, BS>>
            [] Head(text) = NL -> <<BS, "n">>
            [] OTHER -> <<Head(text)>>) \o Escape(Tail(text))

Quote(text) == <<DQ>> \o Escape(text) \o <<DQ>>

RECURSIVE Pad(_)
\* the indentation of a nesting level: level copies of the 2-space gap
Pad(level) == IF level = 0 THEN <<>> ELSE T("  ") \o Pad(level - 1)

\* JSON's wrapping of the members of an array or an object at a nesting
\* level; members is their text, already separated
Wrap(open, close, empty, members, level, gap) ==
    IF empty THEN T(open) \o T(close)
    ELSE IF ~gap THEN T(open) \o members \o T(close)
    ELSE T(open) \o <<NL>> \o Pad(level + 1) \o members \o <<NL>> \o Pad(level) \o T(close)

\* the separator between two members
Separator(level, gap) == IF gap THEN T(",") \o <<NL>> \o Pad(level + 1) ELSE T(",")

RECURSIVE SerializeJSONProperty(_, _, _, _), SerializeElements(_, _, _, _),
          SerializeMembers(_, _, _, _)
\* JSON.stringify's SerializeJSONProperty with the replacer applied: the
\* text of value at a nesting level; a cyclic structure, or a throwing
\* replacer, makes it throw.  stack is the set of arrays and objects being
\* serialized.
SerializeJSONProperty(value, stack, level, gap) ==
    IF replacer(value).isText
    THEN Quote(replacer(value).text)
    ELSE CASE typeOf(value) = "null" -> T("null")
           [] typeOf(value) = "boolean" -> T("true")
           [] typeOf(value) = "number" -> T(ToString(NumOf(value)))
           [] typeOf(value) = "string" -> Quote(StrOf(value))
           [] typeOf(value) = "array" ->
                IF value \in stack THEN T(TypeError)
                ELSE Wrap("[", "]", Len(Elems(value)) = 0,
                          SerializeElements(Elems(value), stack \cup {value}, level, gap),
                          level, gap)
           [] typeOf(value) = "object" ->
                IF value \in stack THEN T(TypeError)
                ELSE Wrap("{", "}", Len(Props(value)) = 0,
                          SerializeMembers(Props(value), stack \cup {value}, level, gap),
                          level, gap)

\* the elements of an array at a nesting level, separated
SerializeElements(items, stack, level, gap) ==
    IF Len(items) = 0 THEN <<>>
    ELSE SerializeJSONProperty(Head(items), stack, level + 1, gap)
         \o (IF Len(items) > 1
             THEN Separator(level, gap) \o SerializeElements(Tail(items), stack, level, gap)
             ELSE <<>>)

\* the key: value members of an object at a nesting level, separated
SerializeMembers(props, stack, level, gap) ==
    IF Len(props) = 0 THEN <<>>
    ELSE Quote(T(Head(props)[1])) \o T(":") \o (IF gap THEN T(" ") ELSE <<>>)
         \o SerializeJSONProperty(Head(props)[2], stack, level + 1, gap)
         \o (IF Len(props) > 1
             THEN Separator(level, gap) \o SerializeMembers(Tail(props), stack, level, gap)
             ELSE <<>>)

\* JSON.stringify(items, replacer, space) of an argument list: a JavaScript
\* array whose elements are the values items
StringifyList(items, gap) ==
    Wrap("[", "]", Len(items) = 0, SerializeElements(items, {}, 0, gap), 0, gap)

\* format without its first replace: the marker stays in the text
KeepUndefinedMarker(text) == text

RECURSIVE ReplaceUndefined(_)
\* .replace(/"<undefined>"/g, 'undefined')
ReplaceUndefined(text) ==
    IF Len(text) = 0 THEN <<>>
    ELSE IF Len(text) >= 3 /\ text[1] = DQ /\ text[2] = "<undefined>" /\ text[3] = DQ
    THEN T("undefined") \o ReplaceUndefined(SubSeq(text, 4, Len(text)))
    ELSE <<Head(text)>> \o ReplaceUndefined(Tail(text))

RECURSIVE ReplaceEscapedQuote(_)
\* .replace(/\\"/g, "'")
ReplaceEscapedQuote(text) ==
    IF Len(text) = 0 THEN <<>>
    ELSE IF Len(text) >= 2 /\ text[1] = BS /\ text[2] = DQ
    THEN <<SQ>> \o ReplaceEscapedQuote(SubSeq(text, 3, Len(text)))
    ELSE <<Head(text)>> \o ReplaceEscapedQuote(Tail(text))

\* .replace(/"/g, "'")
ReplaceQuote(text) == [i \in 1..Len(text) |-> IF text[i] = DQ THEN SQ ELSE text[i]]

\* the last line of format's try block: block delimiters around a text that
\* holds a newline, a backtick pair around any other
Delimit(result) ==
    IF Includes(result, NL) THEN <<BT, NL>> \o result \o <<NL, BT>>
    ELSE <<BT>> \o result \o <<BT>>

\* What format returns: a text, or (raw, from the catch block) the very
\* value it was given.
Formatted(t) == [raw |-> FALSE, text |-> t]
Raw(value) == [raw |-> TRUE, value |-> value]

\* the try/catch of format around the text JSON.stringify produced
FormatOf(json, value) ==
    IF Throws(json) THEN Raw(value)
    ELSE Formatted(Delimit(ReplaceQuote(ReplaceEscapedQuote(ReplaceUndefined(json)))))

\* format(value, isIndented)
format(value, isIndented) ==
    FormatOf(SerializeJSONProperty(value, {}, 0, isIndented), value)

\* format(args, isIndented) for an argument list
formatList(items, isIndented) == FormatOf(StringifyList(items, isIndented), items)

\* formatItems(items, isIndented) = items.map(item => format(item, isIndented))
formatItems(items, isIndented) == [i \in 1..Len(items) |-> format(items[i], isIndented)]

\* formatItems(spy.args): each item is the argument list of one call
formatLists(lists, isIndented) ==
    [i \in 1..Len(lists) |-> formatList(lists[i], isIndented)]

\* `${format(value)}`: the text, or the coercion of the raw value
Interp(f) == IF f.raw THEN String(f.value, {}) ELSE f.text

\* `${format(args)}` for an argument list: a raw list is joined with ','
InterpList(f) == IF f.raw THEN JoinElements(f.value, {}) ELSE f.text

RECURSIVE JoinItems(_, _), JoinLists(_, _)
\* formatItems(items).join(sep)
JoinItems(formatted, sep) ==
    IF Len(formatted) = 0 THEN <<>>
    ELSE Interp(Head(formatted))
         \o (IF Len(formatted) > 1 THEN sep \o JoinItems(Tail(formatted), sep) ELSE <<>>)

\* formatItems(lists).join(sep)
JoinLists(formatted, sep) ==
    IF Len(formatted) = 0 THEN <<>>
    ELSE InterpList(Head(formatted))
         \o (IF Len(formatted) > 1 THEN sep \o JoinLists(Tail(formatted), sep) ELSE <<>>)

-----------------------------------------------------------------------------
(* The spy (sinon, external to the package).  Its state is the sequence of *)
(* recorded calls; each call has its arguments, its return value and the   *)
(* exception it threw ("undefined" when it returned).  Values are compared *)
(* by deep equality, which on value identifiers is equality.               *)

SpyCall(args, returnValue, exception) ==
    [args |-> args, returnValue |-> returnValue, exception |-> exception]

\* `${spy}`: the spy's display name
SpyText == T("spy")

callCount(spy) == Len(spy)

IsPrefix(a, b) == Len(a) <= Len(b) /\ \A i \in 1..Len(a) : a[i] = b[i]

\* call.calledWith(...args): args is a leading part of the call's arguments
callCalledWith(call, args) == IsPrefix(args, call.args)

\* call.calledWithExactly(...args)
callCalledWithExactly(call, args) == call.args = args

\* call.returned(value)
callReturned(call, value) == call.returnValue = value

\* spy.calledWith(...args): some recorded call was called with args
spyCalledWith(spy, args) == \E i \in 1..Len(spy) : callCalledWith(spy[i], args)

\* spy.calledWithExactly(...args)
spyCalledWithExactly(spy, args) ==
    \E i \in 1..Len(spy) : callCalledWithExactly(spy[i], args)

\* spy.returned(value)
spyReturned(spy, value) == \E i \in 1..Len(spy) : callReturned(spy[i], value)

\* spy.threw() and spy.threw(exception)
spyThrew(spy, exception) ==
    \E i \in 1..Len(spy) :
        /\ spy[i].exception # "undefined"
        /\ exception \in {"undefined", spy[i].exception}

\* spy.args and spy.returnValues
spyArgs(spy) == [i \in 1..Len(spy) |-> spy[i].args]
spyReturnValues(spy) == [i \in 1..Len(spy) |-> spy[i].returnValue]

\* spy.getCall(-1): the last recorded call, or null
NoCall == [isNull |-> TRUE]
getCallLast(spy) ==
    IF Len(spy) = 0 THEN NoCall
    ELSE [isNull |-> FALSE, call |-> spy[Len(spy)]]

-----------------------------------------------------------------------------
(* SinonAssertions: pushResult and the named checks.  A check builds the   *)
(* object it hands to pushResult; a template literal that coerces a value  *)
(* String() cannot convert makes the whole check raise a TypeError.        *)

\* the optional message argument: absent, or a string
NoMessage == [given |-> FALSE, text |-> <<>>]
Message(t) == [given |-> TRUE, text |-> t]

\* JavaScript truthiness of the message: a non-empty string
Truthy(message) == message.given /\ message.text # <<>>

Lit(s) == T(s)

RECURSIVE Cat(_)
\* a template literal: the concatenation of its parts
Cat(parts) == IF Len(parts) = 0 THEN <<>> ELSE Head(parts) \o Cat(Tail(parts))

\* the object literal a check passes to pushResult; building it raises when
\* one of its template literals does
Outcome(message, result, expected, actual, error) ==
    [thrown |-> Throws(expected) \/ Throws(actual) \/ Throws(error),
     message |-> message, result |-> result,
     expected |-> expected, actual |-> actual, error |-> error]

pushResultBlankMessage(o) ==
    [result |-> o.result, expected |-> o.expected, actual |-> o.actual,
     message |-> IF o.result THEN o.expected ELSE o.error]

\* pushResult: what testContext.pushResult is called with
pushResult(o) ==
    [result |-> o.result, expected |-> o.expected, actual |-> o.actual,
     message |-> IF o.result
                 THEN (IF Truthy(o.message) THEN o.message.text ELSE o.expected)
                 ELSE (IF Truthy(o.message) THEN o.message.text \o <<NL>> ELSE <<>>)
                      \o o.error]

called(spy, message) ==
    Outcome(message, callCount(spy) > 0,
        Cat(<<SpyText, Lit(" was called at least once")>>),
        Cat(<<SpyText, Lit(" was not called")>>),
        Cat(<<Lit("Expected "), SpyText,
              Lit(" to be called at least once, but it was not called.")>>))

Times(count) == T(ToString(count)) \o T(" ") \o pluralize("time", count)

calledTimes(spy, count, message) ==
    LET expectedTimes == Times(count)
        actualTimes == Times(callCount(spy))
    IN  Outcome(message, callCount(spy) = count,
            Cat(<<SpyText, Lit(" was called "), expectedTimes>>),
            Cat(<<SpyText, Lit(" was called "), actualTimes>>),
            Cat(<<Lit("Expected "), SpyText, Lit(" to be called "), expectedTimes,
                  Lit(", but it was called "), actualTimes, Lit(".")>>))

calledOnceTwice(spy, message) == calledTimes(spy, 2, message)

calledOnce(spy, message) == calledTimes(spy, 1, message)

calledTwice(spy, message) == calledTimes(spy, 2, message)

notCalled(spy, message) == calledTimes(spy, 0, message)

\* the actualState of calledWith and calledWithExactly
CalledWithState(spy) ==
    IF callCount(spy) # 0
    THEN Cat(<<Lit("called with: "), JoinLists(formatLists(spyArgs(spy), FALSE), <<NL>>)>>)
    ELSE Lit("not called at all")

calledWithExact(spy, args, message) ==
    LET actualState == CalledWithState(spy)
        fargs == InterpList(formatList(args, FALSE))
    IN  Outcome(message, spyCalledWithExactly(spy, args),
            Cat(<<SpyText, Lit(" was called with: "), fargs>>),
            Cat(<<SpyText, Lit(" was "), actualState>>),
            Cat(<<Lit("Expected "), SpyText, Lit(" to be called with: "), fargs,
                  Lit(", but it was "), actualState, Lit(".")>>))

calledWith(spy, args, message) ==
    LET actualState == CalledWithState(spy)
        fargs == InterpList(formatList(args, FALSE))
    IN  Outcome(message, spyCalledWith(spy, args),
            Cat(<<SpyText, Lit(" was called with: "), fargs>>),
            Cat(<<SpyText, Lit(" was "), actualState>>),
            Cat(<<Lit("Expected "), SpyText, Lit(" to be called with: "), fargs,
                  Lit(", but it was "), actualState, Lit(".")>>))

calledWithExactly(spy, args, message) ==
    LET actualState == CalledWithState(spy)
        fargs == InterpList(formatList(args, FALSE))
    IN  Outcome(message, spyCalledWithExactly(spy, args),
            Cat(<<SpyText, Lit(" was called with: "), fargs>>),
            Cat(<<SpyText, Lit(" was "), actualState>>),
            Cat(<<Lit("Expected "), SpyText, Lit(" to be called with exactly: "), fargs,
                  Lit(", but it was "), actualState, Lit(".")>>))

notCalledWithUnnegated(spy, args, message) ==
    LET fargs == InterpList(formatList(args, FALSE))
    IN  Outcome(message, spyCalledWith(spy, args),
            Cat(<<SpyText, Lit(" was never called with: "), fargs>>),
            Cat(<<SpyText, Lit(" was called with: "), fargs>>),
            Cat(<<Lit("Expected "), SpyText, Lit(" to never be called with: "), fargs,
                  Lit(", but it was.")>>))

notCalledWith(spy, args, message) ==
    LET fargs == InterpList(formatList(args, FALSE))
    IN  Outcome(message, ~spyCalledWith(spy, args),
            Cat(<<SpyText, Lit(" was never called with: "), fargs>>),
            Cat(<<SpyText, Lit(" was called with: "), fargs>>),
            Cat(<<Lit("Expected "), SpyText, Lit(" to never be called with: "), fargs,
                  Lit(", but it was.")>>))

notCalledWithExactly(spy, args, message) ==
    LET fargs == InterpList(formatList(args, FALSE))
    IN  Outcome(message, ~spyCalledWithExactly(spy, args),
            Cat(<<SpyText, Lit(" was never called with: "), fargs>>),
            Cat(<<SpyText, Lit(" was called with: "), fargs>>),
            Cat(<<Lit("Expected "), SpyText, Lit(" to never be called with exactly: "),
                  fargs, Lit(", but it was.")>>))

returnedWith(spy, value, message) ==
    LET fvalue == Interp(format(value, FALSE))
    IN  Outcome(message, spyReturned(spy, value),
            Cat(<<SpyText, Lit(" returned "), fvalue>>),
            Cat(<<SpyText, Lit(" returned "),
                  JoinItems(formatItems(spyReturnValues(spy), FALSE), <<NL>>)>>),
            Cat(<<Lit("Expected "), SpyText, Lit(" to return "), fvalue,
                  Lit(" at least once, but it did not.")>>))

didNotReturnWith(spy, value, message) ==
    LET fvalue == Interp(format(value, FALSE))
    IN  Outcome(message, ~spyReturned(spy, value),
            Cat(<<SpyText, Lit(" did not return "), fvalue>>),
            Cat(<<SpyText, Lit(" returned "), fvalue>>),
            Cat(<<Lit("Expected "), SpyText, Lit(" to never return "), fvalue,
                  Lit(", but it did.")>>))

threw(spy, message) ==
    Outcome(message, spyThrew(spy, "undefined"),
        Cat(<<SpyText, Lit(" threw")>>),
        Cat(<<SpyText, Lit(" did not throw")>>),
        Cat(<<Lit("Expected "), SpyText, Lit(" to throw at least once, but it did not.")>>))

threwWith(spy, exception, message) ==
    LET fexc == Interp(format(exception, FALSE))
    IN  Outcome(message, spyThrew(spy, exception),
            Cat(<<SpyText, Lit(" threw with "), fexc>>),
            Cat(<<SpyText, Lit(" did not throw with "), fexc>>),
            Cat(<<Lit("Expected "), SpyText, Lit(" to throw with "), fexc,
                  Lit(", but it did not.")>>))

\* the actualState of the four last-call argument checks
LastCalledState(lastCall) ==
    IF ~lastCall.isNull
    THEN Cat(<<Lit("last called with: "), InterpList(formatList(lastCall.call.args, FALSE))>>)
    ELSE Lit("not called at all")

lastCalledWith(spy, args, message) ==
    LET lastCall == getCallLast(spy)
        actualState == LastCalledState(lastCall)
        fargs == InterpList(formatList(args, FALSE))
    IN  Outcome(message, ~lastCall.isNull /\ callCalledWith(lastCall.call, args),
            Cat(<<SpyText, Lit(" was last called with: "), fargs>>),
            Cat(<<SpyText, Lit(" was "), actualState>>),
            Cat(<<Lit("Expected "), SpyText, Lit(" to be last called with: "), fargs,
                  Lit(", but it was "), actualState, Lit(".")>>))

lastCalledWithExactly(spy, args, message) ==
    LET lastCall == getCallLast(spy)
        actualState == LastCalledState(lastCall)
        fargs == InterpList(formatList(args, FALSE))
    IN  Outcome(message, ~lastCall.isNull /\ callCalledWithExactly(lastCall.call, args),
            Cat(<<SpyText, Lit(" was last called with: "), fargs>>),
            Cat(<<SpyText, Lit(" was "), actualState>>),
            Cat(<<Lit("Expected "), SpyText, Lit(" to be last called with exactly: "),
                  fargs, Lit(", but it was "), actualState, Lit(".")>>))

\* the actualState of the two last-call return checks
LastReturnedState(lastCall) ==
    IF ~lastCall.isNull
    THEN Cat(<<SpyText, Lit(" last call returned "),
               Interp(format(lastCall.call.returnValue, FALSE))>>)
    ELSE Cat(<<SpyText, Lit(" was not called at all")>>)

lastReturnedWith(spy, value, message) ==
    LET lastCall == getCallLast(spy)
        actualState == LastReturnedState(lastCall)
        fvalue == Interp(format(value, FALSE))
    IN  Outcome(message, ~lastCall.isNull /\ callReturned(lastCall.call, value),
            Cat(<<SpyText, Lit(" last call returned "), fvalue>>),
            actualState,
            Cat(<<Lit("Expected "), SpyText, Lit(" last call to return "), fvalue,
                  Lit(", but "), actualState, Lit(".")>>))

lastNotCalledWith(spy, args, message) ==
    LET lastCall == getCallLast(spy)
        actualState == LastCalledState(lastCall)
        fargs == InterpList(formatList(args, FALSE))
    IN  Outcome(message, ~lastCall.isNull /\ ~callCalledWith(lastCall.call, args),
            Cat(<<SpyText, Lit(" was not last called with: "), fargs>>),
            Cat(<<SpyText, Lit(" was "), actualState>>),
            Cat(<<Lit("Expected "), SpyText, Lit(" to not be last called with: "), fargs,
                  Lit(", but it was "), actualState, Lit(".")>>))

lastNotCalledWithExactly(spy, args, message) ==
    LET lastCall == getCallLast(spy)
        actualState == LastCalledState(lastCall)
        fargs == InterpList(formatList(args, FALSE))
    IN  Outcome(message, ~lastCall.isNull /\ ~callCalledWithExactly(lastCall.call, args),
            Cat(<<SpyText, Lit(" was not last called with: "), fargs>>),
            Cat(<<SpyText, Lit(" was "), actualState>>),
            Cat(<<Lit("Expected "), SpyText, Lit(" to not be last called with exactly: "),
                  fargs, Lit(", but it was.")>>))

lastDidNotReturnWith(spy, value, message) ==
    LET lastCall == getCallLast(spy)
        actualState == LastReturnedState(lastCall)
        fvalue == Interp(format(value, FALSE))
    IN  Outcome(message, ~lastCall.isNull /\ ~callReturned(lastCall.call, value),
            Cat(<<SpyText, Lit(" last call did not return "), fvalue>>),
            actualState,
            Cat(<<Lit("Expected "), SpyText, Lit(" last call not to return "), fvalue,
                  Lit(", but it did.")>>))

-----------------------------------------------------------------------------
(* QUnit.assert.spy and validateSpy.  What assert.spy may be handed:       *)
(*   undefined        nothing                                              *)
(*   plainFn          a function that is no spy                            *)
(*   getCallObject    an object with a getCall method, not invocable       *)
(*   spy              the sinon spy                                        *)
(*   spyCall          a recorded call of the spy: an object whose proxy    *)
(*                    is the spy                                           *)
(*   fakeProxy        a function marked isSinonProxy, without getCall      *)
(*   fakeCall         an object whose proxy is fakeProxy                   *)
(*   decorated        a spy-like function whose proxy is plainFn           *)
(*   spyOverFake      a spy-like function whose proxy is fakeProxy         *)
(*   midProxy         an object marked isSinonProxy whose proxy is the spy *)
(*   outerCall        an object whose proxy is midProxy                    *)
(*   selfProxy        a spy-like function that is its own proxy            *)

Candidates ==
    { "undefined", "plainFn", "getCallObject", "spy", "spyCall", "fakeProxy",
      "fakeCall", "decorated", "spyOverFake", "midProxy", "outerCall", "selfProxy" }

\* typeof x === 'function'
IsFunction(x) ==
    x \in {"plainFn", "spy", "fakeProxy", "decorated", "spyOverFake", "selfProxy"}

\* typeof x.getCall === 'function'
HasGetCall(x) == x \in {"getCallObject", "spy", "decorated", "spyOverFake", "selfProxy"}

\* x.proxy ("undefined" when x has none)
ProxyOf(x) ==
    CASE x = "spyCall" -> "spy"
      [] x = "fakeCall" -> "fakeProxy"
      [] x = "decorated" -> "plainFn"
      [] x = "spyOverFake" -> "fakeProxy"
      [] x = "midProxy" -> "spy"
      [] x = "outerCall" -> "midProxy"
      [] x = "selfProxy" -> "selfProxy"
      [] OTHER -> "undefined"

\* x.isSinonProxy
IsSinonProxy(x) == x \in {"spy", "fakeProxy", "midProxy", "selfProxy"}

\* spy.proxy && spy.proxy.isSinonProxy
IsWrapped(x) == ProxyOf(x) # "undefined" /\ IsSinonProxy(ProxyOf(x))

Valid == [error |-> "none", subject |-> "undefined"]
\* failValidation(spy): throw new Error(`qunit-sinon-assertions: ${spy} is not a spy`)
failValidation(spy) == [error |-> "is not a spy", subject |-> spy]
\* the recursion never returns: the engine gives up with a RangeError
StackExhausted == [error |-> "RangeError", subject |-> "undefined"]

RECURSIVE validateSpyFrom(_, _)
\* validateSpy(spy), entered with the objects in active already being
\* validated further up the stack
validateSpyFrom(spy, active) ==
    IF spy = "undefined" THEN failValidation(spy)
    ELSE IF IsWrapped(spy)
    THEN IF ProxyOf(spy) \in active \cup {spy} THEN StackExhausted
         ELSE validateSpyFrom(ProxyOf(spy), active \cup {spy})
    ELSE IF ~IsFunction(spy) \/ ~HasGetCall(spy) THEN failValidation(spy)
    ELSE Valid

validateSpyOwnChecks(spy) ==
    IF spy = "undefined" THEN failValidation(spy)
    ELSE IF ~IsFunction(spy) \/ ~HasGetCall(spy) THEN failValidation(spy)
    ELSE Valid

validateSpy(spy) == validateSpyFrom(spy, {})

RECURSIVE validateSpyCalls(_, _)
\* how many times validateSpy is entered for validateSpy(spy): once for spy
\* and once more for every proxy it goes on to (counted up to the point
\* where the proxies repeat, after which the recursion has no end)
validateSpyCalls(spy, active) ==
    IF spy = "undefined" THEN 1
    ELSE IF IsWrapped(spy)
    THEN IF ProxyOf(spy) \in active \cup {spy} THEN 1
         ELSE 1 + validateSpyCalls(ProxyOf(spy), active \cup {spy})
    ELSE 1

\* new SinonAssertions(spy, testContext)
Unbound == [bound |-> FALSE, spy |-> "undefined", testContext |-> "none"]
SinonAssertions(spy, testContext) ==
    [bound |-> TRUE, spy |-> spy, testContext |-> testContext]

-----------------------------------------------------------------------------
(* The test that uses the package: it invokes the spy, writes one          *)
(* assert.spy(x) expression and chains checks on it.  An error that        *)
(* escapes (from assert.spy or from a check) ends the test.  The checks of *)
(* an instance bound to something other than the spy itself (a recorded    *)
(* call, say) are not modelled.                                            *)

NoFactoryCall == [op |-> "none", x |-> "undefined", error |-> "none", subject |-> "undefined"]

Aborted ==
    \/ fret.error # "none"
    \/ Len(log) > 0 /\ log[Len(log)].raised

Init ==
    /\ calls = <<>>
    /\ inst = Unbound
    /\ sink = <<>>
    /\ log = <<>>
    /\ fret = NoFactoryCall
    /\ input = [fn |-> "none"]
    /\ output = [fn |-> "none"]

\* the code under test calls the spy, in one of the ways I
SpyInvoke(I) ==
    /\ ~Aborted
    /\ Len(calls) < MaxCalls
    /\ \E c \in I : calls' = Append(calls, c)
    /\ UNCHANGED <<inst, sink, log, fret, input, output>>

\* assert.spy(x) on the assert object "assert", for an x of X
AssertSpy(X) ==
    /\ ~Aborted
    /\ ~inst.bound
    /\ \E x \in X :
         LET v == validateSpy(x)
         IN  /\ fret' = [op |-> "spy", x |-> x, error |-> v.error, subject |-> v.subject]
             /\ inst' = IF v.error = "none" THEN SinonAssertions(x, "assert") ELSE inst
    /\ UNCHANGED <<calls, sink, log, input, output>>

\* A check call on the instance: o is the object the check builds for
\* pushResult.  A check that raises records nothing and returns nothing.
\* The other parameters are recorded in the log.
Check(op, o, args, value, count, message) ==
    /\ ~Aborted
    /\ inst.bound /\ inst.spy = "spy"
    /\ Len(log) < MaxChecks
    /\ sink' = IF o.thrown THEN sink ELSE Append(sink, pushResult(o))
    /\ log' = Append(log, [op |-> op, args |-> args, value |-> value, count |-> count,
                           message |-> message, spy |-> calls, raised |-> o.thrown,
                           returned |-> IF o.thrown THEN Unbound ELSE inst,
                           pushed |-> IF o.thrown THEN 0 ELSE Len(sink) + 1])
    /\ UNCHANGED <<calls, inst, fret, input, output>>

\* The named checks, with the sets their arguments are drawn from: M the
\* messages, N the counts, A the argument lists, V the values.
Called(M) ==
    \E m \in M : Check("called", called(calls, m), <<>>, "undefined", 0, m)

CalledTimes(N, M) ==
    \E n \in N, m \in M :
        Check("calledTimes", calledTimes(calls, n, m), <<>>, "undefined", n, m)

CalledOnce(M) ==
    \E m \in M : Check("calledOnce", calledOnce(calls, m), <<>>, "undefined", 0, m)

CalledTwice(M) ==
    \E m \in M : Check("calledTwice", calledTwice(calls, m), <<>>, "undefined", 0, m)

NotCalled(M) ==
    \E m \in M : Check("notCalled", notCalled(calls, m), <<>>, "undefined", 0, m)

CalledWith(A, M) ==
    \E a \in A, m \in M :
        Check("calledWith", calledWith(calls, a, m), a, "undefined", 0, m)

CalledWithExactly(A, M) ==
    \E a \in A, m \in M :
        Check("calledWithExactly", calledWithExactly(calls, a, m), a, "undefined", 0, m)

NotCalledWith(A, M) ==
    \E a \in A, m \in M :
        Check("notCalledWith", notCalledWith(calls, a, m), a, "undefined", 0, m)

NotCalledWithExactly(A, M) ==
    \E a \in A, m \in M :
        Check("notCalledWithExactly", notCalledWithExactly(calls, a, m),
              a, "undefined", 0, m)

ReturnedWith(V, M) ==
    \E v \in V, m \in M :
        Check("returnedWith", returnedWith(calls, v, m), <<>>, v, 0, m)

DidNotReturnWith(V, M) ==
    \E v \in V, m \in M :
        Check("didNotReturnWith", didNotReturnWith(calls, v, m), <<>>, v, 0, m)

Threw(M) ==
    \E m \in M : Check("threw", threw(calls, m), <<>>, "undefined", 0, m)

ThrewWith(V, M) ==
    \E e \in V, m \in M :
        Check("threwWith", threwWith(calls, e, m), <<>>, e, 0, m)

LastCalledWith(A, M) ==
    \E a \in A, m \in M :
        Check("lastCalledWith", lastCalledWith(calls, a, m), a, "undefined", 0, m)

LastCalledWithExactly(A, M) ==
    \E a \in A, m \in M :
        Check("lastCalledWithExactly", lastCalledWithExactly(calls, a, m),
              a, "undefined", 0, m)

LastReturnedWith(V, M) ==
    \E v \in V, m \in M :
        Check("lastReturnedWith", lastReturnedWith(calls, v, m), <<>>, v, 0, m)

LastNotCalledWith(A, M) ==
    \E a \in A, m \in M :
        Check("lastNotCalledWith", lastNotCalledWith(calls, a, m), a, "undefined", 0, m)

LastNotCalledWithExactly(A, M) ==
    \E a \in A, m \in M :
        Check("lastNotCalledWithExactly", lastNotCalledWithExactly(calls, a, m),
              a, "undefined", 0, m)

LastDidNotReturnWith(V, M) ==
    \E v \in V, m \in M :
        Check("lastDidNotReturnWith", lastDidNotReturnWith(calls, v, m), <<>>, v, 0, m)

-----------------------------------------------------------------------------
(* Spec: a test that may use every check.                                  *)

Messages == {NoMessage, Message(T("msg"))}

CheckArgs == { <<"n1", "n2">>, <<"n1", "n2", "n3">>, <<"nullProto">> }

CheckValues == {"sOk", "cyclic", "nullProto"}

Counts == 0..MaxCalls

Exceptions == {"error"}

Invocations ==
    { SpyCall(<<"n1", "n2", "n3">>, "sOk", "undefined"),
      SpyCall(<<"cyclic">>, "cyclic", "undefined"),
      SpyCall(<<>>, "undefined", "error") }

Next ==
    \/ SpyInvoke(Invocations)
    \/ AssertSpy(Candidates)
    \/ Called(Messages)
    \/ CalledTimes(Counts, Messages)
    \/ CalledOnce(Messages)
    \/ CalledTwice(Messages)
    \/ NotCalled(Messages)
    \/ CalledWith(CheckArgs, Messages)
    \/ CalledWithExactly(CheckArgs, Messages)
    \/ NotCalledWith(CheckArgs, Messages)
    \/ NotCalledWithExactly(CheckArgs, Messages)
    \/ ReturnedWith(CheckValues, Messages)
    \/ DidNotReturnWith(CheckValues, Messages)
    \/ Threw(Messages)
    \/ ThrewWith(Exceptions, Messages)
    \/ LastCalledWith(CheckArgs, Messages)
    \/ LastCalledWithExactly(CheckArgs, Messages)
    \/ LastReturnedWith(CheckValues, Messages)
    \/ LastNotCalledWith(CheckArgs, Messages)
    \/ LastNotCalledWithExactly(CheckArgs, Messages)
    \/ LastDidNotReturnWith(CheckValues, Messages)

Spec == Init /\ [][Next]_vars

-----------------------------------------------------------------------------
(* SpecCounts: a test that validates any candidate and uses the call-count *)
(* checks; only the number of invocations matters to them.                 *)

CountInvocations == { SpyCall(<<"n1">>, "sOk", "undefined") }

NextCounts ==
    \/ SpyInvoke(CountInvocations)
    \/ AssertSpy(Candidates)
    \/ Called(Messages)
    \/ CalledTimes(Counts, Messages)
    \/ CalledOnce(Messages)
    \/ CalledTwice(Messages)
    \/ NotCalled(Messages)

SpecCounts == Init /\ [][NextCounts]_vars

-----------------------------------------------------------------------------
(* SpecWith: a test that uses calledWith and calledWithExactly.            *)

NextWith ==
    \/ SpyInvoke(Invocations)
    \/ AssertSpy({"spy"})
    \/ CalledWith(CheckArgs, {NoMessage})
    \/ CalledWithExactly(CheckArgs, {NoMessage})

SpecWith == Init /\ [][NextWith]_vars

-----------------------------------------------------------------------------
(* SpecMatch: a test that uses the argument and return-value checks and    *)
(* their negations.                                                        *)

MatchArgs == { <<"n1", "n2", "n3">> }

MatchValues == {"sOk", "nullProto"}

MatchInvocations ==
    { SpyCall(<<"n1", "n2", "n3">>, "sOk", "undefined"),
      SpyCall(<<"n1", "n2">>, "cyclic", "undefined") }

NextMatch ==
    \/ SpyInvoke(MatchInvocations)
    \/ AssertSpy({"spy"})
    \/ CalledWith(MatchArgs, {NoMessage})
    \/ CalledWithExactly(MatchArgs, {NoMessage})
    \/ NotCalledWith(MatchArgs, {NoMessage})
    \/ NotCalledWithExactly(MatchArgs, {NoMessage})
    \/ ReturnedWith(MatchValues, {NoMessage})
    \/ DidNotReturnWith(MatchValues, {NoMessage})
    \/ LastCalledWith(MatchArgs, {NoMessage})
    \/ LastCalledWithExactly(MatchArgs, {NoMessage})
    \/ LastReturnedWith(MatchValues, {NoMessage})
    \/ LastNotCalledWith(MatchArgs, {NoMessage})
    \/ LastNotCalledWithExactly(MatchArgs, {NoMessage})
    \/ LastDidNotReturnWith(MatchValues, {NoMessage})

SpecMatch == Init /\ [][NextMatch]_vars

-----------------------------------------------------------------------------
(* The utility calls on their own: Init draws the argument, the action     *)
(* applies the function.                                                   *)

ItemLists ==
    { <<>>, <<"n1">>, <<"sQuote", "undefined">>, <<"cyclic", "n2">>,
      <<"arr12", "objId", "nullProto">> }

FormatInputs ==
    [fn : {"format"}, value : Values, isIndented : BOOLEAN]
        \cup [fn : {"formatItems"}, items : ItemLists, isIndented : BOOLEAN]

InitFormat ==
    /\ calls = <<>>
    /\ inst = Unbound
    /\ sink = <<>>
    /\ log = <<>>
    /\ fret = NoFactoryCall
    /\ input \in FormatInputs
    /\ output = [fn |-> "none"]

CallFormat ==
    /\ input.fn = "format"
    /\ output.fn = "none"
    /\ output' = [fn |-> "format", returned |-> format(input.value, input.isIndented)]
    /\ UNCHANGED <<calls, inst, sink, log, fret, input>>

CallFormatItems ==
    /\ input.fn = "formatItems"
    /\ output.fn = "none"
    /\ output' = [fn |-> "formatItems",
                  returned |-> formatItems(input.items, input.isIndented)]
    /\ UNCHANGED <<calls, inst, sink, log, fret, input>>

NextFormat == CallFormat \/ CallFormatItems

SpecFormat == InitFormat /\ [][NextFormat]_vars

\* the objects a check may hand to pushResult
Outcomes ==
    [thrown : {FALSE},
     message : {NoMessage, Message(<<>>), Message(T("msg"))},
     result : BOOLEAN,
     expected : {T("spy threw"), T("spy called once"), Cat(<<T("spy returned "), <<BT, SQ, "ok", SQ, BT>> >>)},
     actual : {T("spy did not throw"), T("spy returned ")},
     error : {T("Expected spy to throw at least once, but it did not."),
              T("Expected spy to return it.")}]

InitPushResult ==
    /\ calls = <<>>
    /\ inst = SinonAssertions("spy", "assert")
    /\ sink = <<>>
    /\ log = <<>>
    /\ fret = NoFactoryCall
    /\ input \in [fn : {"pushResult"}, outcome : Outcomes]
    /\ output = [fn |-> "none"]

\* this.pushResult(outcome) on an instance
CallPushResult ==
    /\ input.fn = "pushResult"
    /\ output.fn = "none"
    /\ inst.bound
    /\ sink' = Append(sink, pushResult(input.outcome))
    /\ output' = [fn |-> "pushResult", returned |-> "undefined"]
    /\ UNCHANGED <<calls, inst, log, fret, input>>

NextPushResult == CallPushResult

SpecPushResult == InitPushResult /\ [][NextPushResult]_vars

-----------------------------------------------------------------------------
(* Properties.  A log entry i records one check call: the spy's history    *)
(* when it was made (log[i].spy), its arguments, whether it raised, what   *)
(* it returned and the position in the sink of the outcome it reported.    *)

\* C1: every check call chained on the instance returns that instance and
\* appends exactly one outcome to the sink, so after k calls the sink holds
\* k outcomes, the i-th reported by the i-th call.
C1_EveryCallReportsOnce ==
    /\ Len(sink) = Len(log)
    /\ \A i \in 1..Len(log) :
         /\ ~log[i].raised
         /\ log[i].returned = inst
         /\ log[i].pushed = i

\* C2: calledTimes(n) passes iff the call count is n; calledOnce,
\* calledTwice and notCalled report the outcome calledTimes(1),
\* calledTimes(2) and calledTimes(0) report on the same spy; called passes
\* iff the call count is positive.
C2_CallCountChecks ==
    \A i \in 1..Len(log) :
        LET e == log[i]
            c == Len(e.spy)
            o == sink[e.pushed]
        IN  /\ ~e.raised
            /\ e.op = "calledTimes" => (o.result <=> c = e.count)
            /\ e.op = "calledOnce" => o = pushResult(calledTimes(e.spy, 1, e.message))
            /\ e.op = "calledTwice" => o = pushResult(calledTimes(e.spy, 2, e.message))
            /\ e.op = "notCalled" => o = pushResult(calledTimes(e.spy, 0, e.message))
            /\ e.op = "called" => (o.result <=> c > 0)

\* a test made calledOnce pass on a spy called once and calledTimes(n) fail
C2_Witness ==
    \E i, j \in 1..Len(log) :
        /\ log[i].op = "calledOnce" /\ Len(log[i].spy) = 1 /\ sink[log[i].pushed].result
        /\ log[j].op = "calledTimes" /\ log[j].count # Len(log[j].spy)
        /\ ~sink[log[j].pushed].result

\* C3: on a spy with no recorded call each of the six last-call checks
\* reports a failing outcome without raising, and notCalledWith,
\* notCalledWithExactly and didNotReturnWith report a passing one.
C3_NeverCalledSpy ==
    \A i \in 1..Len(log) :
        LET e == log[i]
        IN  Len(e.spy) = 0 =>
              /\ e.op \in {"lastCalledWith", "lastCalledWithExactly", "lastNotCalledWith",
                           "lastNotCalledWithExactly", "lastReturnedWith",
                           "lastDidNotReturnWith"}
                   => ~e.raised /\ ~sink[e.pushed].result
              /\ e.op \in {"notCalledWith", "notCalledWithExactly", "didNotReturnWith"}
                   => ~e.raised /\ sink[e.pushed].result

C7_ReportedMessage ==
    output.fn = "pushResult" =>
        LET o == input.outcome
            present == o.message.given /\ Len(o.message.text) > 0
            r == sink[Len(sink)]
        IN  /\ Len(sink) = 1
            /\ r.result = o.result /\ r.expected = o.expected /\ r.actual = o.actual
            /\ o.result /\ present => r.message = o.message.text
            /\ o.result /\ ~present => r.message = o.expected
            /\ ~o.result /\ present => r.message = o.message.text \o <<NL>> \o o.error
            /\ ~o.result /\ ~present => r.message = o.error

\* a failing outcome with a message was reported
C7_Witness ==
    /\ output.fn = "pushResult"
    /\ ~input.outcome.result
    /\ input.outcome.message = Message(T("msg"))
    /\ Len(sink) = 1 /\ sink[1].message = <<"msg", NL>> \o input.outcome.error

\* C8: the actual text of calledWith, calledWithExactly and returnedWith
\* ends with the formatted arguments or return values of every recorded
\* call, one per line, when the spy was called, and holds the placeholder
\* "not called at all" when it was not.
C8_ActualListsCalls ==
    \A i \in 1..Len(log) :
        LET e == log[i]
            a == sink[e.pushed].actual
            items == IF e.op = "returnedWith"
                     THEN [k \in 1..Len(e.spy) |-> Interp(format(e.spy[k].returnValue, FALSE))]
                     ELSE [k \in 1..Len(e.spy) |-> InterpList(formatList(e.spy[k].args, FALSE))]
            lines == Join(items, <<NL>>)
        IN  e.op \in {"calledWith", "calledWithExactly", "returnedWith"} /\ ~e.raised =>
              IF Len(e.spy) > 0
              THEN /\ Len(lines) <= Len(a)
                   /\ SubSeq(a, Len(a) - Len(lines) + 1, Len(a)) = lines
                   /\ ~Includes(a, "not called at all")
              ELSE Includes(a, "not called at all")

\* C9 as stated: format(undefined) is the text undefined with no delimiter
\* around it.
C9_Original ==
    output.fn = "format" /\ input.value = "undefined" =>
        output.returned = Formatted(<<"undefined">>)

\* C9, amended: format(undefined) is the unquoted text undefined inside the
\* single backtick pair, not block-delimited, in the compact and in the
\* indented mode.
C9_Amended ==
    output.fn = "format" /\ input.value = "undefined" =>
        /\ ~output.returned.raw
        /\ output.returned.text = <<BT, "undefined", BT>>

\* format(undefined, true) returned
C9_Witness ==
    /\ output.fn = "format" /\ input.value = "undefined" /\ input.isIndented
    /\ ~output.returned.raw
    /\ ~Includes(output.returned.text, NL)

\* C10: a check whose expected or actual value cannot be encoded (format
\* hands the value back) still completes and reports exactly one outcome.
C10_UnencodableValueStillReported ==
    \A i \in 1..Len(log) :
        LET e == log[i]
            unencodable ==
                \/ format(e.value, FALSE).raw
                \/ formatList(e.args, FALSE).raw
                \/ \E k \in 1..Len(e.spy) :
                       \/ format(e.spy[k].returnValue, FALSE).raw
                       \/ formatList(e.spy[k].args, FALSE).raw
        IN  unencodable => ~e.raised /\ e.returned = inst /\ e.pushed \in 1..Len(sink)

\* C11: validation in assert.spy(x) unwraps at most one layer of proxying
\* (validateSpy is entered for x and at most once more, for x.proxy) and
\* always ends, in acceptance or in the validation error "is not a spy",
\* also for a chain of proxies and for a proxy that refers back to itself.
C11_OneLayerAndTerminates ==
    fret.op = "spy" =>
        /\ fret.error \in {"none", "is not a spy"}
        /\ validateSpyCalls(fret.x, {}) <= 2

=============================================================================
